---- MODULE Spec2Model ----
(***************************************************************************)
(* The bencode codec of domenec: the cursor-based recursive-descent        *)
(* decoder (bdecode.rs) and the recursive encoder (bencode.rs).            *)
(*                                                                         *)
(* Bytes are their ASCII codes.  A decoder is the record                   *)
(* [bytes, cursor, log, checks]: bytes and cursor are the fields of        *)
(* BDecoder, log is a history of the calls that returned, kept for the     *)
(* properties only, and checks tells whether the build checks arithmetic   *)
(* overflow.                                                               *)
(* Each method is an operator from the decoder before the call to the      *)
(* record [self, tag, val, err]: the decoder after the call and the        *)
(* Result (tag "Ok" with val, tag "Err" with err), or tag "Panic" when the *)
(* call unwinds instead of returning.                                      *)
(***************************************************************************)
EXTENDS Integers, Sequences, FiniteSets, TLC

VARIABLES overflow_checks, op, val, prefix, out, inp, cursor, log, res, base, key, wraps

vars == <<overflow_checks, op, val, prefix, out, inp, cursor, log, res, base, key, wraps>>

(***************************************************************************)
(* Byte literals of the grammar.                                           *)
(***************************************************************************)
b_i == 105
b_l == 108
b_d == 100
b_e == 101
b_colon == 58
b_minus == 45
b_0 == 48
b_a == 97

(* Option::None of peek(): no byte (bytes are 0..255). *)
None == -1

is_ascii_digit(c) == c \in b_0..(b_0 + 9)

(***************************************************************************)
(* i64.  TLC's integers are 32 bits wide, so i64 is modelled as a two's    *)
(* complement integer of IntBits bits; every overflow of the code happens  *)
(* at the same place relative to MinInt and MaxInt.                        *)
(***************************************************************************)
IntBits == 16

MinInt == -(2 ^ (IntBits - 1))
MaxInt == (2 ^ (IntBits - 1)) - 1

wrapping(x) == ((x - MinInt) % (2 ^ IntBits)) + MinInt

(* `a * b` and `a + b` on i64: with overflow checks (the dev and test      *)
(* profiles) an overflow panics, without them (release) it wraps.          *)
i64_mul(a, b, checks) ==
    IF a * b \in MinInt..MaxInt THEN [panic |-> FALSE, v |-> a * b]
    ELSE IF checks THEN [panic |-> TRUE, v |-> 0]
    ELSE [panic |-> FALSE, v |-> wrapping(a * b)]

i64_add(a, b, checks) ==
    IF a + b \in MinInt..MaxInt THEN [panic |-> FALSE, v |-> a + b]
    ELSE IF checks THEN [panic |-> TRUE, v |-> 0]
    ELSE [panic |-> FALSE, v |-> wrapping(a + b)]

(***************************************************************************)
(* BEncodingType.  Every value has the same fields so that any two values  *)
(* can be compared; a Dictionary's items are its [key, value] pairs in     *)
(* LinkedHashMap order.                                                    *)
(***************************************************************************)
Integer(n) == [tag |-> "Integer", int |-> n, bytes |-> <<>>, items |-> <<>>]
String(bs) == [tag |-> "String", int |-> 0, bytes |-> bs, items |-> <<>>]
List(xs) == [tag |-> "List", int |-> 0, bytes |-> <<>>, items |-> xs]
Dictionary(ps) == [tag |-> "Dictionary", int |-> 0, bytes |-> <<>>, items |-> ps]

(* No value: the payload of a Result that is not Ok. *)
NoValue == [tag |-> "None", int |-> 0, bytes |-> <<>>, items |-> <<>>]

(***************************************************************************)
(* DecodingError.                                                          *)
(***************************************************************************)
MissingIdentifier(c) == [kind |-> "MissingIdentifier", chr |-> c, key |-> <<>>]
KeyWithoutValue(k) == [kind |-> "KeyWithoutValue", chr |-> 0, key |-> k]
StringWithoutLength == [kind |-> "StringWithoutLength", chr |-> 0, key |-> <<>>]
NotANumber == [kind |-> "NotANumber", chr |-> 0, key |-> <<>>]
EndOfFile == [kind |-> "EndOfFile", chr |-> 0, key |-> <<>>]
NegativeZero == [kind |-> "NegativeZero", chr |-> 0, key |-> <<>>]
NegativeStringLen == [kind |-> "NegativeStringLen", chr |-> 0, key |-> <<>>]

NoError == [kind |-> "None", chr |-> 0, key |-> <<>>]

(***************************************************************************)
(* Results of a call.                                                      *)
(***************************************************************************)
Ok(self, v) == [self |-> self, tag |-> "Ok", val |-> v, err |-> NoError]
Err(self, e) == [self |-> self, tag |-> "Err", val |-> NoValue, err |-> e]
Panic(self) == [self |-> self, tag |-> "Panic", val |-> NoValue, err |-> NoError]

(* The `?` operator on a call that did not return Ok: the same error (or   *)
(* the same unwinding) leaves the caller.                                  *)
Propagate(r) == [self |-> r.self, tag |-> r.tag, val |-> NoValue, err |-> r.err]

(* The call fn entered at cursor start has returned r: one more entry of   *)
(* the history.  A panic returns nowhere and leaves no entry.              *)
Returned(fn, start, r) ==
    IF r.tag = "Panic" THEN r
    ELSE [r EXCEPT !.self.log =
            Append(@, [fn |-> fn, start |-> start, end |-> r.self.cursor,
                       tag |-> r.tag, err |-> r.err])]

(***************************************************************************)
(* BDecoder.                                                               *)
(***************************************************************************)
(* A decoder that starts where the last call has left the cursor. *)
new_residual(bytes, checks) ==
    [bytes |-> bytes, cursor |-> cursor, log |-> <<>>, checks |-> checks]

new(bytes, checks) == [bytes |-> bytes, cursor |-> 0, log |-> <<>>, checks |-> checks]

peek(self) ==
    IF self.cursor < Len(self.bytes) THEN self.bytes[self.cursor + 1] ELSE None

advance(self) ==
    LET v == peek(self)
        s == [self EXCEPT !.cursor = @ + 1]
    IN  IF v = None THEN Err(s, EndOfFile) ELSE Ok(s, v)

(* expect_char that reports the literal as missing when no byte is left. *)
expect_char_missing(self, expected) ==
    Returned("expect_char", self.cursor,
        IF peek(self) = expected THEN advance(self)
        ELSE Err(self, MissingIdentifier(expected)))

(* expect_char that consumes the byte it rejects. *)
expect_char_consume(self, expected) ==
    Returned("expect_char", self.cursor,
        IF peek(self) = None THEN Err(self, EndOfFile)
        ELSE IF peek(self) = expected THEN advance(self)
        ELSE Err([self EXCEPT !.cursor = @ + 1], MissingIdentifier(expected)))

expect_char(self, expected) ==
    Returned("expect_char", self.cursor,
        IF peek(self) = None THEN Err(self, EndOfFile)
        ELSE IF peek(self) = expected THEN advance(self)
        ELSE Err(self, MissingIdentifier(expected)))

RECURSIVE read_num_loop(_, _)
(* while let Some(v) = self.peek() { if v.is_ascii_digit() { ... } else { break } } *)
read_num_loop(self, acc) ==
    IF peek(self) # None /\ is_ascii_digit(peek(self))
    THEN LET m == i64_mul(acc, 10, self.checks)
             a == i64_add(m.v, peek(self) - b_0, self.checks)
         IN  IF m.panic \/ a.panic THEN Panic(self)
             ELSE read_num_loop([self EXCEPT !.cursor = @ + 1], a.v)
    ELSE Ok(self, acc)

(* Ok(acc * neg_const) *)
read_num_sign(acc, neg_const) ==
    IF acc.tag = "Panic" THEN acc
    ELSE IF i64_mul(acc.val, neg_const, acc.self.checks).panic THEN Panic(acc.self)
    ELSE Ok(acc.self, i64_mul(acc.val, neg_const, acc.self.checks).v)

(* read_num without the test of neg_const and the first digit: "-0" is a number. *)
read_num_digits_zero(self, neg_const) ==
    IF peek(self) = None THEN Err(self, EndOfFile)
    ELSE IF ~is_ascii_digit(peek(self)) THEN Err(self, NotANumber)
    ELSE read_num_sign(read_num_loop(self, 0), neg_const)

(* read_num after the optional '-': self is the decoder past it. *)
read_num_digits(self, neg_const) ==
    IF peek(self) = None THEN Err(self, EndOfFile)
    ELSE IF ~is_ascii_digit(peek(self)) THEN Err(self, NotANumber)
    ELSE IF neg_const = -1 /\ peek(self) = b_0 THEN Err(self, NegativeZero)
    ELSE read_num_sign(read_num_loop(self, 0), neg_const)

read_num(self) ==
    Returned("read_num", self.cursor,
        IF peek(self) = b_minus
        THEN read_num_digits([self EXCEPT !.cursor = @ + 1], -1)
        ELSE read_num_digits(self, 1))

(* parse_str that leaves the cursor behind the ':' when the body is short. *)
parse_str_body_keep(len, colon) ==
    LET bytes == colon.self.bytes
        start == colon.self.cursor
        end == start + len.val
    IN  IF colon.tag # "Ok" THEN Propagate(colon)
        ELSE IF end > Len(bytes) THEN Err(colon.self, EndOfFile)
        ELSE Ok([colon.self EXCEPT !.cursor = end], SubSeq(bytes, start + 1, end))

(* parse_str from `let start = self.cursor`: colon is the result of        *)
(* expect_char(b':').                                                      *)
parse_str_body(len, colon) ==
    LET bytes == colon.self.bytes
        start == colon.self.cursor
        end == start + len.val
    IN  IF colon.tag # "Ok" THEN Propagate(colon)
        ELSE IF end > Len(bytes)
             THEN Err([colon.self EXCEPT !.cursor = Len(bytes)], EndOfFile)
        ELSE Ok([colon.self EXCEPT !.cursor = end], SubSeq(bytes, start + 1, end))

(* parse_str that looks at the sign of the length after the ':'. *)
parse_str_len_late(len) ==
    IF len.tag = "Panic" THEN len
    ELSE IF len.tag = "Err" THEN Err(len.self, StringWithoutLength)
    ELSE IF expect_char(len.self, b_colon).tag # "Ok"
         THEN Propagate(expect_char(len.self, b_colon))
    ELSE IF len.val < 0
         THEN Err(expect_char(len.self, b_colon).self, NegativeStringLen)
    ELSE parse_str_body(len, expect_char(len.self, b_colon))

(* parse_str with `?` alone on read_num: its error leaves as it is. *)
parse_str_len_propagate(len) ==
    IF len.tag # "Ok" THEN Propagate(len)
    ELSE IF len.val < 0 THEN Err(len.self, NegativeStringLen)
    ELSE parse_str_body(len, expect_char(len.self, b_colon))

(* parse_str from the result len of read_num. *)
parse_str_len(len) ==
    IF len.tag = "Panic" THEN len
    ELSE IF len.tag = "Err" THEN Err(len.self, StringWithoutLength)
    ELSE IF len.val < 0 THEN Err(len.self, NegativeStringLen)
    ELSE parse_str_body(len, expect_char(len.self, b_colon))

parse_str(self) == Returned("parse_str", self.cursor, parse_str_len(read_num(self)))

(* parse_int that leaves the cursor on the 'e' it has found. *)
parse_int_end_early(i, e) == IF e.tag # "Ok" THEN Propagate(e) ELSE Ok(i.self, i.val)

(* parse_int from the result e of expect_char(b'e'). *)
parse_int_end(i, e) == IF e.tag # "Ok" THEN Propagate(e) ELSE Ok(e.self, i.val)

(* parse_int from the result i of read_num. *)
parse_int_num(i) ==
    IF i.tag # "Ok" THEN Propagate(i) ELSE parse_int_end(i, expect_char(i.self, b_e))

(* parse_int from the result of expect_char(b'i'). *)
parse_int_start(r) ==
    IF r.tag # "Ok" THEN Propagate(r) ELSE parse_int_num(read_num(r.self))

parse_int(self) ==
    Returned("parse_int", self.cursor, parse_int_start(expect_char(self, b_i)))

(* An insert that keeps the value a key already has. *)
insert_first(dict, k, v) ==
    IF \E n \in 1..Len(dict) : dict[n].key = k THEN dict
    ELSE Append(dict, [key |-> k, value |-> v])

(* LinkedHashMap::insert: a new key goes to the back; a key already in the *)
(* map keeps its node, takes the new value and moves to the back.          *)
insert(dict, k, v) ==
    Append(SelectSeq(dict, LAMBDA p : p.key # k), [key |-> k, value |-> v])

contains_key(dict, k) == \E n \in 1..Len(dict) : dict[n].key = k

RECURSIVE parse_type(_), parse_list_loop(_, _), parse_dict_loop(_, _)

(* parse_list that reports any failure of an element as EndOfFile. *)
parse_list_push_eof(list, item) ==
    IF item.tag = "Panic" THEN item
    ELSE IF item.tag = "Err" THEN Err(item.self, EndOfFile)
    ELSE parse_list_loop(item.self, Append(list, item.val))

(* list.push(self.parse_type()?), and the loop again. *)
parse_list_push(list, item) ==
    IF item.tag # "Ok" THEN Propagate(item)
    ELSE parse_list_loop(item.self, Append(list, item.val))

(* while self.peek().filter(|&c| c != b'e').is_some() { ... } *)
parse_list_loop(self, list) ==
    IF peek(self) # None /\ peek(self) # b_e
    THEN parse_list_push(list, parse_type(self))
    ELSE Ok(self, list)

(* parse_list from the result e of expect_char(b'e'). *)
parse_list_end(list, e) == IF e.tag # "Ok" THEN Propagate(e) ELSE Ok(e.self, list.val)

(* parse_list from the result list of the loop. *)
parse_list_items(list) ==
    IF list.tag # "Ok" THEN list ELSE parse_list_end(list, expect_char(list.self, b_e))

(* parse_list from the result of expect_char(b'l'). *)
parse_list_start(r) ==
    IF r.tag # "Ok" THEN Propagate(r) ELSE parse_list_items(parse_list_loop(r.self, <<>>))

parse_list(self) ==
    Returned("parse_list", self.cursor, parse_list_start(expect_char(self, b_l)))

(* dict.insert(key, value): the call returns the old value of the key, if  *)
(* any (the history tells which).                                          *)
parse_dict_insert(dict, k, value) ==
    Returned("insert", value.self.cursor,
        [self |-> value.self,
         tag |-> IF contains_key(dict, k.val) THEN "Some" ELSE "None",
         val |-> NoValue, err |-> NoError])

(* parse_dict with `?` alone on the value: its error leaves as it is. *)
parse_dict_value_propagate(dict, k, value) ==
    IF value.tag # "Ok" THEN Propagate(value)
    ELSE parse_dict_loop(parse_dict_insert(dict, k, value).self,
                         insert(dict, k.val, value.val))

(* parse_dict that rewraps every error of the value but EndOfFile. *)
parse_dict_value_eof(dict, k, value) ==
    IF value.tag = "Panic" THEN value
    ELSE IF value.tag = "Err" /\ value.err = EndOfFile THEN Propagate(value)
    ELSE IF value.tag = "Err" THEN Err(value.self, KeyWithoutValue(k.val))
    ELSE parse_dict_loop(parse_dict_insert(dict, k, value).self,
                         insert(dict, k.val, value.val))

(* let value = self.parse_type().map_err(|_| KeyWithoutValue(key.clone()))?, *)
(* the insert, and the loop again.                                         *)
parse_dict_value(dict, k, value) ==
    IF value.tag = "Panic" THEN value
    ELSE IF value.tag = "Err" THEN Err(value.self, KeyWithoutValue(k.val))
    ELSE parse_dict_loop(parse_dict_insert(dict, k, value).self,
                         insert(dict, k.val, value.val))

(* let key = self.parse_str()?, and the value. *)
parse_dict_key(dict, k) ==
    IF k.tag # "Ok" THEN Propagate(k) ELSE parse_dict_value(dict, k, parse_type(k.self))

(* The key as parse_type leaves it: the bytes of a string, the encoding of *)
(* any other value.                                                        *)
any_key(self, k) ==
    IF k.tag # "Ok" THEN k
    ELSE IF k.val.tag = "String" THEN Ok(k.self, k.val.bytes)
    ELSE Ok(k.self, SubSeq(self.bytes, self.cursor + 1, k.self.cursor))

(* parse_dict with the key parsed by parse_type. *)
parse_dict_loop_any_key(self, dict) ==
    IF peek(self) # None /\ peek(self) # b_e
    THEN parse_dict_key(dict, any_key(self, parse_type(self)))
    ELSE Ok(self, dict)

(* while self.peek().filter(|&c| c != b'e').is_some() { ... } *)
parse_dict_loop(self, dict) ==
    IF peek(self) # None /\ peek(self) # b_e
    THEN parse_dict_key(dict, parse_str(self))
    ELSE Ok(self, dict)

(* parse_dict from the result e of expect_char(b'e'). *)
parse_dict_end(dict, e) == IF e.tag # "Ok" THEN Propagate(e) ELSE Ok(e.self, dict.val)

(* parse_dict from the result dict of the loop. *)
parse_dict_pairs(dict) ==
    IF dict.tag # "Ok" THEN dict ELSE parse_dict_end(dict, expect_char(dict.self, b_e))

(* parse_dict from the result of expect_char(b'd'). *)
parse_dict_start(r) ==
    IF r.tag # "Ok" THEN Propagate(r) ELSE parse_dict_pairs(parse_dict_loop(r.self, <<>>))

parse_dict(self) ==
    Returned("parse_dict", self.cursor, parse_dict_start(expect_char(self, b_d)))

(* Result::map with one of the four variants of BEncodingType. *)
map_Integer(r) == IF r.tag = "Ok" THEN Ok(r.self, Integer(r.val)) ELSE Propagate(r)
map_List(r) == IF r.tag = "Ok" THEN Ok(r.self, List(r.val)) ELSE Propagate(r)
map_Dictionary(r) == IF r.tag = "Ok" THEN Ok(r.self, Dictionary(r.val)) ELSE Propagate(r)
map_String(r) == IF r.tag = "Ok" THEN Ok(r.self, String(r.val)) ELSE Propagate(r)

(* parse_type that takes a byte string to start with a digit and reports   *)
(* any other byte as unexpected.                                           *)
parse_type_strict(self) ==
    Returned("parse_type", self.cursor,
        IF peek(self) = None THEN Err(self, EndOfFile)
        ELSE IF peek(self) = b_i THEN map_Integer(parse_int(self))
        ELSE IF peek(self) = b_l THEN map_List(parse_list(self))
        ELSE IF peek(self) = b_d THEN map_Dictionary(parse_dict(self))
        ELSE IF is_ascii_digit(peek(self)) THEN map_String(parse_str(self))
        ELSE Err(self, MissingIdentifier(peek(self))))

parse_type(self) ==
    Returned("parse_type", self.cursor,
        IF peek(self) = None THEN Err(self, EndOfFile)
        ELSE IF peek(self) = b_i THEN map_Integer(parse_int(self))
        ELSE IF peek(self) = b_l THEN map_List(parse_list(self))
        ELSE IF peek(self) = b_d THEN map_Dictionary(parse_dict(self))
        ELSE map_String(parse_str(self)))

(* A failure unless the value ends the buffer. *)
to_the_end(r) ==
    IF r.tag = "Ok" /\ r.self.cursor < Len(r.self.bytes)
    THEN Err(r.self, MissingIdentifier(None))
    ELSE r

(* decode that wants the buffer to hold the value and nothing more. *)
BDecoder_decode_all(self) == to_the_end(parse_type(self))

BDecoder_decode(self) == parse_type(self)

decode(bytes, checks) == BDecoder_decode(new(bytes, checks))

(***************************************************************************)
(* The encoder (bencode.rs): every function appends to buf.                *)
(***************************************************************************)
RECURSIVE digits(_)
digits(n) ==
    IF n < 10 THEN <<b_0 + n>> ELSE Append(digits(n \div 10), b_0 + (n % 10))

(* i64::to_string *)
to_string(int) == IF int < 0 THEN <<b_minus>> \o digits(-int) ELSE digits(int)

(* encode_num that sets the buffer to the digits. *)
encode_num_overwrite(int, buf) == to_string(int)

encode_num(int, buf) == buf \o to_string(int)

encode_int(int, buf) == Append(encode_num(int, Append(buf, b_i)), b_e)

encode_bytestring(bs, buf) == Append(encode_num(Len(bs), buf), b_colon) \o bs

RECURSIVE encode_type(_, _), encode_list_loop(_, _, _), encode_dict_loop(_, _, _)

encode_list_loop(list, n, buf) ==
    IF n > Len(list) THEN buf
    ELSE encode_list_loop(list, n + 1, encode_type(list[n], buf))

encode_list(list, buf) == Append(encode_list_loop(list, 1, Append(buf, b_l)), b_e)

encode_dict_loop(dict, n, buf) ==
    IF n > Len(dict) THEN buf
    ELSE encode_dict_loop(dict, n + 1,
             encode_type(dict[n].value, encode_bytestring(dict[n].key, buf)))

encode_dict(dict, buf) == Append(encode_dict_loop(dict, 1, Append(buf, b_d)), b_e)

encode_type(bencoding, buf) ==
    CASE bencoding.tag = "Integer" -> encode_int(bencoding.int, buf)
      [] bencoding.tag = "String" -> encode_bytestring(bencoding.bytes, buf)
      [] bencoding.tag = "List" -> encode_list(bencoding.items, buf)
      [] bencoding.tag = "Dictionary" -> encode_dict(bencoding.items, buf)

encode(bencoded) == encode_type(bencoded, <<>>)

(***************************************************************************)
(* The values given to encode: every value of at most MaxNodes nodes over  *)
(* a few integers (the extremes of i64 among them), byte strings and keys. *)
(***************************************************************************)
MaxNodes == 3

Ints == {MinInt, -1, 0, MaxInt}
Strs == {<<>>, <<b_e>>}
Keys == {<<b_a>>, <<b_i, b_0 + 1, b_e>>}

RECURSIVE ValuesOfSize(_), ListsOfSize(_), DictsOfSize(_)

(* The sequences of values of n nodes in all. *)
ListsOfSize(n) ==
    IF n = 0 THEN {<<>>}
    ELSE UNION {{<<v>> \o xs : v \in ValuesOfSize(k), xs \in ListsOfSize(n - k)} :
                k \in 1..n}

(* The sequences of [key, value] pairs, keys unique, values of n nodes in all. *)
DictsOfSize(n) ==
    IF n = 0 THEN {<<>>}
    ELSE UNION {{<<[key |-> km[1], value |-> v]>> \o ps :
                    v \in ValuesOfSize(km[2]),
                    ps \in {q \in DictsOfSize(n - km[2]) : ~contains_key(q, km[1])}} :
                km \in Keys \X (1..n)}

ValuesOfSize(n) ==
    (IF n = 1 THEN {Integer(x) : x \in Ints} \cup {String(x) : x \in Strs} ELSE {})
    \cup {List(xs) : xs \in ListsOfSize(n - 1)}
    \cup {Dictionary(ps) : ps \in DictsOfSize(n - 1)}

Values == UNION {ValuesOfSize(n) : n \in 1..MaxNodes}

(***************************************************************************)
(* The buffers given to decode: every byte sequence of at most MaxLen      *)
(* bytes over the bytes the grammar tells apart, the inputs of the tests   *)
(* of bdecode.rs and of main, the examples of leading zeros and repeated   *)
(* keys, and the digit runs around the ends of i64.                        *)
(***************************************************************************)
MaxLen == 3

Alphabet == {b_i, b_l, b_d, b_e, b_minus, b_colon, b_0, b_0 + 1}

ShortInputs == UNION {[1..n -> Alphabet] : n \in 0..MaxLen}

TestInputs ==
    {
        <<105, 49, 50, 51, 101>>,  \* i123e
        <<105, 45, 49, 50, 51, 101>>,  \* i-123e
        <<105, 45, 48, 101>>,  \* i-0e
        <<97, 98, 99>>,  \* abc
        <<105, 97, 98, 99>>,  \* iabc
        <<105, 45, 97, 98, 99>>,  \* i-abc
        <<105, 50, 51, 97, 98, 99>>,  \* i23abc
        <<105, 50, 51>>,  \* i23
        <<51, 58, 97, 98, 99>>,  \* 3:abc
        <<48, 58>>,  \* 0:
        <<45, 51, 58, 97, 98, 99>>,  \* -3:abc
        <<51, 97, 98, 99>>,  \* 3abc
        <<51, 58, 97, 98>>,  \* 3:ab
        <<108, 101>>,  \* le
        <<108, 105, 49, 50, 51, 101, 101>>,  \* li123ee
        <<108, 51, 58, 97, 98, 99, 101>>,  \* l3:abce
        <<108, 51, 58, 97, 98, 99, 52, 58, 100, 101, 102, 103, 101>>,  \* l3:abc4:defge
        <<108, 108, 101, 101>>,  \* llee
        <<108, 108, 108, 101, 101, 108, 108, 101, 101, 101>>,  \* llleelleee
        <<108, 51, 58, 97, 98, 99>>,  \* l3:abc
        <<100, 101>>,  \* de
        <<100, 49, 58, 97, 105, 49, 50, 51, 101, 101>>,  \* d1:ai123ee
        <<100, 49, 58, 97, 108, 51, 58, 104, 101, 121, 101, 49, 58, 98, 108, 101, 101>>,  \* d1:al3:heye1:blee
        <<100, 53, 58, 105, 110, 110, 101, 114, 100, 49, 58, 97, 105, 51, 52, 53, 101,
          49, 58, 98, 51, 58, 119, 111, 119, 101, 54, 58, 105, 110, 110, 101, 114, 50,
          100, 101, 101>>,  \* d5:innerd1:ai345e1:b3:wowe6:inner2dee
        <<100, 52, 58, 105, 116, 101, 109, 101>>,  \* d4:iteme
        <<100, 49, 58, 97, 50, 58, 98, 99>>,  \* d1:a2:bc
        <<100, 49, 58, 97, 100, 50, 58, 120, 121, 100, 50, 48, 58, 97, 98, 99, 100, 101,
          102, 103, 104, 105, 106, 48, 49, 50, 51, 52, 53, 54, 55, 56, 57, 105, 53, 53,
          53, 101, 101, 101, 101>>  \* d1:ad2:xyd20:abcdefghij0123456789i555eeee (main)
    }

MoreInputs ==
    {
        <<105, 48, 48, 55, 101>>,  \* i007e
        <<48, 49, 58, 97>>,  \* 01:a
        <<100, 49, 58, 97, 105, 49, 101, 49, 58, 97, 105, 50, 101, 101>>,  \* d1:ai1e1:ai2ee
        <<100, 49, 58, 97, 105, 45, 48, 101, 101>>,  \* d1:ai-0ee
        <<105, 48, 48, 101>>,  \* i00e
        <<48, 48, 58>>,  \* 00:
        <<108, 105, 45, 48, 101>>,  \* li-0e
        <<108, 105, 45, 48, 49, 101, 101>>,  \* li-01ee
        <<45, 48, 58>>,  \* -0:
        <<45, 48, 49, 58>>,  \* -01:
        <<108, 45, 49, 58, 101>>,  \* l-1:e
        <<108, 50, 58, 97, 101>>,  \* l2:ae
        <<100, 45, 49, 58, 101>>,  \* d-1:e
        <<100, 50, 58, 97>>,  \* d2:a
        <<100, 49, 58, 97, 45, 49, 58, 101>>,  \* d1:a-1:e
        <<100, 49, 58, 97, 50, 58, 98, 101>>  \* d1:a2:be
    }

(* "i<n>e", "i-<n>e", "<n>:", "<n>:a" and "-<n>:" for the magnitudes n     *)
(* around MaxInt and around 2^IntBits.                                     *)
EdgeMagnitudes == {MaxInt, MaxInt + 1, MaxInt + 2, 2 ^ IntBits, 2 ^ IntBits + 1}

EdgeInputs ==
    UNION {{<<b_i>> \o digits(n) \o <<b_e>>,
            <<b_i, b_minus>> \o digits(n) \o <<b_e>>,
            digits(n) \o <<b_colon>>,
            digits(n) \o <<b_colon, b_a>>,
            <<b_minus>> \o digits(n) \o <<b_colon>>} : n \in EdgeMagnitudes}

Inputs == ShortInputs \cup TestInputs \cup MoreInputs \cup EdgeInputs

(***************************************************************************)
(* The callers of the codec.  A behaviour is one use of it: a value is     *)
(* encoded and the bytes decoded again, or a buffer is decoded and the     *)
(* value encoded again (main), or a decoded buffer is decoded once more    *)
(* inside a larger buffer.                                                 *)
(***************************************************************************)
MaxTrail == 1
MaxWraps == 2

(* The bytes put behind a complete encoding. *)
Trailing == UNION {[1..n -> {b_e, b_i, b_0 + 1}] : n \in 1..MaxTrail}

(* The keys a failing buffer is put under, and the values whose encodings  *)
(* are put where a dictionary expects a key.                               *)
WrapKeys == {<<b_a>>, <<105, 116, 101, 109>>}  \* a, item
NonStringKeys == {Integer(1), List(<<>>), Dictionary(<<>>)}
Contexts == {"top", "list", "dict"}

(* Values that fail to decode, each for a reason of its own. *)
FailingValues ==
    {
        <<>>,  \* EndOfFile
        <<b_e>>,  \* StringWithoutLength
        <<b_i, b_e>>,  \* NotANumber
        <<b_i, b_minus, b_0, b_e>>,  \* NegativeZero
        <<b_i, b_0>>,  \* EndOfFile
        <<b_0 + 1, b_a>>,  \* MissingIdentifier(':')
        <<b_minus, b_0 + 1, b_colon>>  \* NegativeStringLen
    }

NoCall ==
    [inp |-> <<>>, cursor |-> 0, log |-> <<>>,
     res |-> [tag |-> "None", val |-> NoValue, err |-> NoError]]

Init ==
    /\ overflow_checks \in BOOLEAN
    /\ \/ op = "value" /\ val \in Values /\ inp = <<>>
       \/ op = "buffer" /\ val = NoValue /\ inp \in Inputs
    /\ prefix = <<>>
    /\ out = <<>>
    /\ cursor = 0
    /\ log = <<>>
    /\ res = NoCall.res
    /\ base = NoCall
    /\ key = <<>>
    /\ wraps = 0

(* decode(bytes): the result, and the decoder as the call left it. *)
Decoded(bytes) ==
    \E r \in {decode(bytes, overflow_checks)} :
        /\ inp' = bytes
        /\ cursor' = r.self.cursor
        /\ log' = r.self.log
        /\ res' = [tag |-> r.tag, val |-> r.val, err |-> r.err]

(* The decode call just made, for the next call to be compared with. *)
ThisCall == [inp |-> inp, cursor |-> cursor, log |-> log, res |-> res]

(* The encoding of the pair of key k and the value encoded as bytes. *)
Pair(k, bytes) == encode_bytestring(k, <<>>) \o bytes

(* encode(val) *)
Encode ==
    /\ op = "value"
    /\ out' = encode(val)
    /\ op' = "encode"
    /\ UNCHANGED <<overflow_checks, prefix, val, inp, cursor, log, res, base, key, wraps>>

(* decode(inp) *)
Decode ==
    /\ op = "buffer"
    /\ Decoded(inp)
    /\ op' = "decode"
    /\ UNCHANGED <<overflow_checks, prefix, val, out, base, key, wraps>>

(* decode(encode(val)) *)
DecodeEncoded ==
    /\ op = "encode"
    /\ Decoded(out)
    /\ op' = "encode_decode"
    /\ UNCHANGED <<overflow_checks, prefix, val, out, base, key, wraps>>

(* main: encode(decode(inp).unwrap()) *)
EncodeDecoded ==
    /\ op = "decode"
    /\ res.tag = "Ok"
    /\ val' = res.val
    /\ out' = encode(res.val)
    /\ op' = "decode_encode"
    /\ UNCHANGED <<overflow_checks, prefix, inp, cursor, log, res, base, key, wraps>>

(* decode(w ++ s), for a buffer w that decode accepted and consumed in     *)
(* full.                                                                   *)
DecodeWithTrailing ==
    /\ op \in {"decode", "encode_decode"}
    /\ res.tag = "Ok"
    /\ cursor = Len(inp)
    /\ \E s \in Trailing : Decoded(inp \o s)
    /\ base' = ThisCall
    /\ op' = "decode_trailing"
    /\ UNCHANGED <<overflow_checks, prefix, val, out, key, wraps>>

(* decode("d" ++ pair of k and inp): inp, which decode rejected, as the    *)
(* value of the first key of a dictionary. A dictionary so made is put     *)
(* under a key in turn when its innermost value is one of FailingValues.   *)
DecodeInDict ==
    /\ op \in {"decode", "decode_in_dict"}
    /\ res.tag = "Err"
    /\ wraps < MaxWraps
    /\ wraps = 1 => base.inp \in FailingValues
    /\ \E k \in WrapKeys \ {key} :
          /\ Decoded(<<b_d>> \o Pair(k, inp))
          /\ key' = k
    /\ base' = ThisCall
    /\ wraps' = wraps + 1
    /\ op' = "decode_in_dict"
    /\ UNCHANGED <<overflow_checks, prefix, val, out>>

(* The same key with another failing value: decode("d" ++ pair of key and  *)
(* v).                                                                     *)
DecodeOtherInDict ==
    /\ op = "decode_in_dict"
    /\ wraps = 1
    /\ base.inp \in FailingValues
    /\ \E v \in FailingValues : Decoded(<<b_d>> \o Pair(key, v))
    /\ base' = ThisCall
    /\ op' = "decode_other_in_dict"
    /\ UNCHANGED <<overflow_checks, prefix, val, out, key, wraps>>

(* The encoding out of the dictionary val with one more pair whose key is  *)
(* the encoding of an integer, a list or a dictionary; at the top, in a    *)
(* list or as the value of a key.                                          *)
BadKeyDict(k, v) == SubSeq(out, 1, Len(out) - 1) \o encode(k) \o encode(v) \o <<b_e>>

InContext(c, bytes) ==
    CASE c = "top" -> bytes
      [] c = "list" -> <<b_l>> \o bytes \o <<b_e>>
      [] c = "dict" -> <<b_d>> \o Pair(<<b_a>>, bytes) \o <<b_e>>

DecodeBadKey ==
    /\ op = "encode"
    /\ val.tag = "Dictionary"
    /\ \E k \in NonStringKeys, c \in Contexts :
          Decoded(InContext(c, BadKeyDict(k, Integer(0))))
    /\ op' = "decode_bad_key"
    /\ UNCHANGED <<overflow_checks, prefix, val, out, base, key, wraps>>

(* decode of the encoding out cut short: its first n bytes, n < len. *)
DecodePrefix ==
    /\ op = "encode"
    /\ \E n \in 0..(Len(out) - 1) : Decoded(SubSeq(out, 1, n))
    /\ op' = "decode_prefix"
    /\ val' = NoValue
    /\ out' = <<>>
    /\ UNCHANGED <<overflow_checks, prefix, base, key, wraps>>

(* The values given to a key that the dictionary already has. *)
LaterValues == {Integer(0), String(<<b_e>>), List(<<>>)}

(* decode of the encoding out of the dictionary val, which decodes, with   *)
(* one more pair at its end: the n-th key again, with another value.       *)
DecodeDuplicate ==
    /\ op = "encode_decode"
    /\ res.tag = "Ok"
    /\ val.tag = "Dictionary"
    /\ \E n \in 1..Len(val.items), v \in LaterValues :
          /\ Decoded(SubSeq(out, 1, Len(out) - 1)
                     \o Pair(val.items[n].key, encode(v)) \o <<b_e>>)
          /\ key' = val.items[n].key
    /\ base' = ThisCall
    /\ op' = "decode_duplicate"
    /\ UNCHANGED <<overflow_checks, prefix, val, out, wraps>>

(* The buffers of the calls made between two calls on one buffer. *)
OtherInputs ==
    {
        <<b_i, b_0 + 1, b_e>>,  \* i1e
        <<b_d, b_0 + 1, b_colon, b_a>>  \* d1:a
    }

(* decode of another buffer, after decode(inp). *)
DecodeOther ==
    /\ op = "decode"
    /\ \E b \in OtherInputs : Decoded(b)
    /\ base' = ThisCall
    /\ op' = "decode_other"
    /\ UNCHANGED <<overflow_checks, prefix, val, out, key, wraps>>

(* decode of the buffer of the first call once more: right after it, or    *)
(* after the call on another buffer.                                       *)
DecodeAgain ==
    \/ /\ op = "decode"
       /\ Decoded(inp)
       /\ base' = ThisCall
       /\ op' = "decode_again"
       /\ UNCHANGED <<overflow_checks, prefix, val, out, key, wraps>>
    \/ /\ op = "decode_other"
       /\ Decoded(base.inp)
       /\ op' = "decode_again"
       /\ UNCHANGED <<overflow_checks, prefix, val, out, base, key, wraps>>

(* The bytes already in the buffer that an encode step is given. *)
Buffers == {<<b_a>>, <<b_l, b_i, b_0, b_e>>}

(* encode_type(val, buf) on a buffer that holds bytes already. *)
EncodeInto ==
    /\ op = "value"
    /\ \E b \in Buffers :
          /\ prefix' = b
          /\ out' = encode_type(val, b)
    /\ op' = "encode_into"
    /\ UNCHANGED <<overflow_checks, val, inp, cursor, log, res, base, key, wraps>>

(* The complete elements put before a failing one: none, or i1e and 0:. *)
Fronts == {<<>>, <<b_i, b_0 + 1, b_e, b_0, b_colon>>}

(* decode("l" ++ complete elements ++ inp): inp, which decode rejected and *)
(* which does not start with the 'e' that would end the list, as the last  *)
(* element of a list.                                                      *)
DecodeInList ==
    /\ op = "decode"
    /\ res.tag = "Err"
    /\ IF inp = <<>> THEN TRUE ELSE inp[1] # b_e
    /\ \E front \in Fronts : Decoded(<<b_l>> \o front \o inp)
    /\ base' = ThisCall
    /\ op' = "decode_in_list"
    /\ UNCHANGED <<overflow_checks, prefix, val, out, key, wraps>>

Next ==
    \/ Encode
    \/ Decode
    \/ DecodeEncoded
    \/ EncodeDecoded
    \/ DecodeWithTrailing
    \/ DecodeInDict
    \/ DecodeOtherInDict
    \/ DecodeBadKey
    \/ DecodePrefix
    \/ DecodeDuplicate
    \/ DecodeOther
    \/ DecodeAgain
    \/ EncodeInto
    \/ DecodeInList

Spec == Init /\ [][Next]_vars

(***************************************************************************)
(* The properties.  inp, cursor, log and res are those of the last call of *)
(* decode; positions in inp count from 0, as the cursor does.              *)
(***************************************************************************)
Called == op \notin {"value", "buffer", "encode", "encode_into"}

Calls == 1..Len(log)

At(p) == IF p < Len(inp) THEN inp[p + 1] ELSE None

RECURSIVE DigitRun(_)
(* The number of digits in a row from position p. *)
DigitRun(p) ==
    IF At(p) # None /\ is_ascii_digit(At(p)) THEN 1 + DigitRun(p + 1) ELSE 0

RECURSIVE Magnitude(_, _)
(* The number the n digits from position p write. *)
Magnitude(p, n) ==
    IF n = 0 THEN 0 ELSE Magnitude(p, n - 1) * 10 + (At(p + n - 1) - b_0)

(* C1: decoding the encoding of a value succeeds and returns that value,   *)
(* the order of the keys of its dictionaries included.                     *)
C1_RoundTrip == op = "encode_decode" => res.tag = "Ok" /\ res.val = val

(* insert found the key in the dictionary. *)
RepeatedKey == \E n \in Calls : log[n].fn = "insert" /\ log[n].tag = "Some"

(* C2: a buffer that decode accepts and consumes in full, no key repeated  *)
(* in a dictionary, is what encode returns for the decoded value.          *)
C2_ByteExact ==
    (op = "decode_encode" /\ cursor = Len(inp) /\ ~RepeatedKey) => out = inp

(* 'i', a run of two digits or more that starts with '0', 'e'. *)
LeadingZeroInt ==
    /\ Len(inp) >= 4
    /\ At(0) = b_i
    /\ At(1) = b_0
    /\ DigitRun(1) = Len(inp) - 2
    /\ At(Len(inp) - 1) = b_e

(* C3: decode rejects an integer whose digits are two or more and start    *)
(* with '0'.                                                               *)
C3_LeadingZeroRejected == (Called /\ LeadingZeroInt) => res.tag = "Err"

(* An integer production at position p whose '-' is followed by '0'. *)
NegativeZeroAt(p) == At(p) = b_i /\ At(p + 1) = b_minus /\ At(p + 2) = b_0

(* C4: parse_int on 'i', '-', '0' fails with NegativeZero, the cursor 2    *)
(* bytes past its start: behind the '-', before the '0'.  So does decode   *)
(* when the buffer starts that way.                                        *)
C4_NegativeZero ==
    /\ \A n \in Calls :
          (log[n].fn = "parse_int" /\ NegativeZeroAt(log[n].start))
          => /\ log[n].tag = "Err"
             /\ log[n].err = NegativeZero
             /\ log[n].end = log[n].start + 2
    /\ (Called /\ NegativeZeroAt(0))
       => res.tag = "Err" /\ res.err = NegativeZero /\ cursor = 2

C4_Witness ==
    /\ Called
    /\ \E n \in Calls :
          /\ log[n].fn = "parse_int"
          /\ log[n].start > 0
          /\ NegativeZeroAt(log[n].start)
          /\ log[n].err = NegativeZero
          /\ At(log[n].start + 3) # None

(* C5: with bytes behind a buffer that decode accepts and consumes in      *)
(* full, decode returns the same value, stops where that buffer ends, and  *)
(* makes the same calls at the same positions.                             *)
C5_TrailingNotInspected ==
    op = "decode_trailing"
    => /\ res.tag = "Ok"
       /\ res = base.res
       /\ cursor = Len(base.inp)
       /\ log = base.log

C5_Witness ==
    /\ op = "decode_trailing"
    /\ res.tag = "Ok"
    /\ res.val.tag = "Dictionary"
    /\ Len(res.val.items) > 0
    /\ cursor < Len(inp)
    /\ At(cursor) = b_i

(* C6: decode returns no value for a dictionary with an integer, a list or *)
(* a dictionary where a key is due: it fails, unless an integer before     *)
(* that key has overflowed in a build that checks.  And wherever parse_str *)
(* is called on 'i', 'l' or 'd', which is at the key of a pair alone, it   *)
(* fails there with StringWithoutLength.                                   *)
C6_KeyIsByteString ==
    /\ op = "decode_bad_key"
       => res.tag # "Ok" /\ (res.tag = "Panic" => overflow_checks)
    /\ \A n \in Calls :
          (log[n].fn = "parse_str" /\ At(log[n].start) \in {b_i, b_l, b_d})
          => /\ log[n].tag = "Err"
             /\ log[n].err = StringWithoutLength
             /\ log[n].end = log[n].start

C6_Witness ==
    /\ op = "decode_bad_key"
    /\ res.tag = "Err"
    /\ \E n, m \in Calls :
          /\ log[m].fn = "insert"
          /\ m < n
          /\ log[n].fn = "parse_str"
          /\ At(log[n].start) = b_l
          /\ log[n].tag = "Err"

(* The key of the pair whose value starts at position s: the body of the   *)
(* last byte string that parse_str returned with the cursor at s.          *)
KeyCall(s) ==
    CHOOSE m \in Calls :
        /\ log[m].fn = "parse_str" /\ log[m].tag = "Ok" /\ log[m].end = s
        /\ \A j \in Calls :
              (log[j].fn = "parse_str" /\ log[j].tag = "Ok" /\ log[j].end = s)
              => j <= m

KeyBefore(s) ==
    SubSeq(inp, log[KeyCall(s)].start + DigitRun(log[KeyCall(s)].start) + 2, s)

(* The bytes of "item". *)
item == <<105, 116, 101, 109>>

(* C7: a buffer that decode rejects, put as the value of the first key of  *)
(* a dictionary, makes decode fail with KeyWithoutValue of that key where  *)
(* the value failed, whatever failed in it and whatever key it named; and  *)
(* every call of parse_dict that ends right after the failure of a value   *)
(* fails there with KeyWithoutValue of the key before that value.          *)
C7_KeyWithoutValue ==
    /\ op = "decode_in_dict"
       => /\ res.tag = "Err"
          /\ res.err = KeyWithoutValue(key)
          /\ cursor = base.cursor + 1 + Len(Pair(key, <<>>))
    /\ (Called /\ inp = <<b_d>> \o Pair(item, <<b_e>>))
       => res.err = KeyWithoutValue(item) /\ cursor = 7
    /\ \A n \in Calls :
          (/\ n > 1
           /\ log[n].fn = "parse_dict"
           /\ log[n - 1].fn = "parse_type"
           /\ log[n - 1].tag = "Err")
          => /\ log[n].tag = "Err"
             /\ log[n].err = KeyWithoutValue(KeyBefore(log[n - 1].start))
             /\ log[n].end = log[n - 1].end

C7_Witness ==
    /\ op = "decode_in_dict"
    /\ wraps = 2
    /\ base.res.err.kind = "KeyWithoutValue"
    /\ base.res.err.key # key
    /\ \E n \in Calls : log[n].fn = "parse_int" /\ log[n].err = NegativeZero
    /\ res.err = KeyWithoutValue(key)

(* The failure of the value of the first pair of the dictionary bytes,     *)
(* when that value is decoded on its own.                                  *)
Underlying(bytes) ==
    decode(SubSeq(bytes, 2 + Len(Pair(key, <<>>)), Len(bytes)), overflow_checks).err

(* C8 as the specification has it: the kind of the failure of the value    *)
(* can be told from the error decode returns, so two values that fail      *)
(* under the same key with the same error returned have failed the same    *)
(* way.                                                                    *)
C8_FailureClassKept ==
    (op = "decode_other_in_dict" /\ res.err = base.res.err)
    => Underlying(inp).kind = Underlying(base.inp).kind

(* C8: the error decode returns when the value of a key fails names the    *)
(* key and nothing else: two values that fail under the same key give the  *)
(* same error, however each of them failed.                                *)
C8_OnlyTheKey ==
    op = "decode_other_in_dict"
    => /\ res.tag = "Err"
       /\ res.err = KeyWithoutValue(key)
       /\ res.err = base.res.err

C8_Witness ==
    /\ op = "decode_other_in_dict"
    /\ res.err = base.res.err
    /\ Underlying(inp).kind = "NegativeZero"
    /\ Underlying(base.inp).kind = "EndOfFile"

(* A length at position p: '-', digits, the first of them not '0'. *)
NegativeLenAt(p) == At(p) = b_minus /\ DigitRun(p + 1) > 0

(* C9 as the specification has it: parse_str on '-' and digits fails with  *)
(* NegativeStringLen, the cursor right behind the digits.                  *)
C9_NegativeLen ==
    /\ \A n \in Calls :
          (log[n].fn = "parse_str" /\ NegativeLenAt(log[n].start))
          => /\ log[n].tag = "Err"
             /\ log[n].err = NegativeStringLen
             /\ log[n].end = log[n].start + 1 + DigitRun(log[n].start + 1)
    /\ (Called /\ NegativeLenAt(0))
       => /\ res.tag = "Err"
          /\ res.err = NegativeStringLen
          /\ cursor = 1 + DigitRun(1)

(* '-' and digits that write a negative i64: the first digit is not '0'    *)
(* and the digits write no more than MaxInt.                               *)
NegativeI64At(p) ==
    /\ NegativeLenAt(p)
    /\ At(p + 1) # b_0
    /\ Magnitude(p + 1, DigitRun(p + 1)) <= MaxInt

(* C9: parse_str on '-' and digits that write a negative i64 fails with    *)
(* NegativeStringLen, the cursor right behind the digits; so does decode   *)
(* on a buffer that starts that way.                                       *)
C9_NegativeI64Len ==
    /\ \A n \in Calls :
          (log[n].fn = "parse_str" /\ NegativeI64At(log[n].start))
          => /\ log[n].tag = "Err"
             /\ log[n].err = NegativeStringLen
             /\ log[n].end = log[n].start + 1 + DigitRun(log[n].start + 1)
    /\ (Called /\ NegativeI64At(0))
       => /\ res.tag = "Err"
          /\ res.err = NegativeStringLen
          /\ cursor = 1 + DigitRun(1)

C9_Witness ==
    /\ Called
    /\ \E n \in Calls :
          /\ log[n].fn = "parse_str"
          /\ log[n].start > 0
          /\ NegativeI64At(log[n].start)
          /\ At(log[n].end) = b_colon
          /\ At(log[n].end + 1) # None
          /\ log[n].err = NegativeStringLen

(* A byte string at position p that declares more bytes than the buffer    *)
(* has behind its ':'.                                                     *)
TruncatedAt(p) ==
    /\ DigitRun(p) > 0
    /\ At(p + DigitRun(p)) = b_colon
    /\ Magnitude(p, DigitRun(p)) > Len(inp) - (p + DigitRun(p) + 1)

(* C10 as the specification has it: parse_str on a byte string that        *)
(* declares more bytes than are left fails with EndOfFile, the cursor at   *)
(* the end of the buffer.                                                  *)
C10_Truncated ==
    /\ \A n \in Calls :
          (log[n].fn = "parse_str" /\ TruncatedAt(log[n].start))
          => /\ log[n].tag = "Err"
             /\ log[n].err = EndOfFile
             /\ log[n].end = Len(inp)
    /\ (Called /\ TruncatedAt(0))
       => res.tag = "Err" /\ res.err = EndOfFile /\ cursor = Len(inp)

(* C10: parse_str on a byte string that declares more bytes than are left, *)
(* and no more than MaxInt, fails with EndOfFile, the cursor at the end of *)
(* the buffer; so does decode on a buffer that starts that way.            *)
C10_TruncatedI64 ==
    /\ \A n \in Calls :
          (/\ log[n].fn = "parse_str"
           /\ TruncatedAt(log[n].start)
           /\ Magnitude(log[n].start, DigitRun(log[n].start)) <= MaxInt)
          => /\ log[n].tag = "Err"
             /\ log[n].err = EndOfFile
             /\ log[n].end = Len(inp)
    /\ (Called /\ TruncatedAt(0) /\ Magnitude(0, DigitRun(0)) <= MaxInt)
       => res.tag = "Err" /\ res.err = EndOfFile /\ cursor = Len(inp)

C10_Witness ==
    /\ Called
    /\ \E n \in Calls :
          /\ log[n].fn = "parse_str"
          /\ log[n].start > 0
          /\ TruncatedAt(log[n].start)
          /\ log[n].err = EndOfFile
          /\ log[n].end = Len(inp)
          /\ log[n].end > log[n].start + DigitRun(log[n].start) + 1

(* The call that failed first: the failure every later one comes from. *)
FirstErr ==
    CHOOSE n \in Calls :
        log[n].tag = "Err" /\ \A j \in 1..(n - 1) : log[j].tag # "Err"

(* decode failed, and the first failure was the code finding no byte left: *)
(* peek returned None, or a string body ran past the buffer.               *)
Exhausted == Called /\ res.tag = "Err" /\ log[FirstErr].err = EndOfFile

(* The value of a pair failed: parse_dict ended right after parse_type did. *)
ValueFailed ==
    \E n \in Calls :
        /\ n > 1
        /\ log[n].fn = "parse_dict"
        /\ log[n - 1].fn = "parse_type"
        /\ log[n - 1].tag = "Err"

(* The first failure was read_num called by parse_str. *)
LengthFailed ==
    /\ log[FirstErr].fn = "read_num"
    /\ FirstErr < Len(log)
    /\ log[FirstErr + 1].fn = "parse_str"

(* C11 as the specification has it: when decode fails for want of bytes,   *)
(* the error it returns is EndOfFile.                                      *)
C11_EndOfFile == Exhausted => res.err = EndOfFile

(* C11: when decode fails for want of bytes, the error it returns is       *)
(* KeyWithoutValue if the bytes ran out in the value of a pair, else       *)
(* StringWithoutLength if they ran out in the length of a byte string      *)
(* (behind its '-'), else EndOfFile; and decode of an encoding cut short   *)
(* returns no value, and fails for want of bytes when it fails.            *)
C11_EndOfFileUnlessRewrapped ==
    /\ Exhausted
       => IF ValueFailed THEN res.err.kind = "KeyWithoutValue"
          ELSE IF LengthFailed
               THEN /\ res.err = StringWithoutLength
                    /\ At(log[FirstErr].start) = b_minus
                    /\ log[FirstErr].end = Len(inp)
          ELSE res.err = EndOfFile
    /\ op = "decode_prefix"
       => /\ res.tag # "Ok"
          /\ res.tag = "Panic" => overflow_checks
          /\ res.tag = "Err" => Exhausted

C11_Witness ==
    /\ op = "decode_prefix"
    /\ Exhausted
    /\ ~ValueFailed
    /\ res.err = EndOfFile
    /\ log[FirstErr].fn = "parse_str"
    /\ log[FirstErr].start > 0
    /\ cursor > log[FirstErr].start + 2

(* The places of key k in the pairs of the dictionary d. *)
PlacesOf(d, k) == {n \in 1..Len(d.items) : d.items[n].key = k}

(* The value of the last pair of the buffer, whose key is k, as decode     *)
(* returns it for the bytes of that value alone.                           *)
LastOnWire(k) == decode(SubSeq(inp, Len(base.inp) + Len(Pair(k, <<>>)), Len(inp) - 1),
                        overflow_checks).val

(* C12: decode accepts a dictionary whose last pair has a key of an        *)
(* earlier pair; the dictionary returned has that key in one pair, with    *)
(* the value of the last pair, and every other key with the value it had.  *)
(* d1:ai1e1:ai2ee gives the dictionary of a and 2.                         *)
C12_LastWriteWins ==
    /\ op = "decode_duplicate"
       => /\ res.tag = "Ok"
          /\ res.val.tag = "Dictionary"
          /\ Cardinality(PlacesOf(res.val, key)) = 1
          /\ \A n \in PlacesOf(res.val, key) :
                res.val.items[n].value = LastOnWire(key)
          /\ \A n \in 1..Len(val.items) :
                val.items[n].key # key
                => \E m \in 1..Len(res.val.items) : res.val.items[m] = val.items[n]
          /\ Len(res.val.items) = Len(val.items)
    /\ (Called /\ inp = <<b_d>> \o Pair(<<b_a>>, <<b_i, b_0 + 1, b_e>>)
                        \o Pair(<<b_a>>, <<b_i, b_0 + 2, b_e>>) \o <<b_e>>)
       => res.tag = "Ok" /\ res.val = Dictionary(<<[key |-> <<b_a>>, value |-> Integer(2)]>>)

C12_Witness ==
    /\ op = "decode_duplicate"
    /\ res.tag = "Ok"
    /\ Len(val.items) = 2
    /\ val.items[1].key = key
    /\ val.items[1].value # LastOnWire(key)
    /\ \E n \in Calls : log[n].fn = "insert" /\ log[n].tag = "Some"

RECURSIVE NumDigits(_)
(* The number of decimal digits of n >= 0. *)
NumDigits(n) == IF n < 10 THEN 1 ELSE 1 + NumDigits(n \div 10)

(* The decimal digits of n >= 0, the first of them first. *)
Decimal(n) ==
    [i \in 1..NumDigits(n) |-> b_0 + ((n \div (10 ^ (NumDigits(n) - i))) % 10)]

RECURSIVE Wire(_), WireAll(_), WirePairs(_)
(* The production of a value, as the grammar writes it. *)
Wire(v) ==
    CASE v.tag = "Integer" ->
            <<b_i>> \o (IF v.int < 0 THEN <<b_minus>> \o Decimal(-v.int)
                        ELSE Decimal(v.int)) \o <<b_e>>
      [] v.tag = "String" -> Decimal(Len(v.bytes)) \o <<b_colon>> \o v.bytes
      [] v.tag = "List" -> <<b_l>> \o WireAll(v.items) \o <<b_e>>
      [] v.tag = "Dictionary" -> <<b_d>> \o WirePairs(v.items) \o <<b_e>>

WireAll(xs) == IF xs = <<>> THEN <<>> ELSE Wire(Head(xs)) \o WireAll(Tail(xs))

WirePairs(ps) ==
    IF ps = <<>> THEN <<>>
    ELSE Wire(String(Head(ps).key)) \o Wire(Head(ps).value) \o WirePairs(Tail(ps))

(* C14: an encode step on a buffer that holds bytes returns the buffer     *)
(* with those bytes as they were and, behind them, the production of the   *)
(* value and nothing else; encode returns the production.                  *)
C14_AppendOnly ==
    /\ op = "encode_into" => out = prefix \o Wire(val)
    /\ op = "encode" => out = Wire(val)

C14_Witness ==
    /\ op = "encode_into"
    /\ Len(prefix) > 1
    /\ val.tag = "Dictionary"
    /\ Len(val.items) = 2
    /\ val.items[2].value.tag = "Integer"
    /\ val.items[2].value.int < -1
    /\ SubSeq(out, 1, Len(prefix)) = prefix

(* The length a byte string declares at position p, read as an i64: the    *)
(* number its digits write, negated behind a '-', modulo 2^IntBits.        *)
DeclaredLen(p) ==
    IF At(p) = b_minus THEN wrapping(-Magnitude(p + 1, DigitRun(p + 1)))
    ELSE wrapping(Magnitude(p, DigitRun(p)))

(* The offset behind the byte string at position p: its length, ':' and    *)
(* as many bytes as the length says.                                       *)
StrEnd(p) ==
    p + (IF At(p) = b_minus THEN 1 + DigitRun(p + 1) ELSE DigitRun(p))
      + 1 + DeclaredLen(p)

(* The offset behind the integer at position p: 'i', '-' or not, digits    *)
(* and 'e'.                                                                *)
IntEnd(p) ==
    p + 1 + (IF At(p + 1) = b_minus THEN 1 + DigitRun(p + 2) ELSE DigitRun(p + 1)) + 1

RECURSIVE ProductionEnd(_), ElementsEnd(_), PairsEnd(_)
(* The offset behind the production at position p, by the grammar. *)
ProductionEnd(p) ==
    IF ~(p \in 0..(Len(inp) - 1)) THEN Len(inp)
    ELSE IF At(p) = b_i THEN IntEnd(p)
    ELSE IF At(p) = b_l THEN ElementsEnd(p + 1)
    ELSE IF At(p) = b_d THEN PairsEnd(p + 1)
    ELSE StrEnd(p)

(* The offset behind the 'e' that ends the elements from position p. *)
ElementsEnd(p) ==
    IF ~(p \in 0..(Len(inp) - 1)) THEN Len(inp)
    ELSE IF At(p) = b_e THEN p + 1
    ELSE ElementsEnd(ProductionEnd(p))

(* The offset behind the 'e' that ends the pairs from position p. *)
PairsEnd(p) ==
    IF ~(p \in 0..(Len(inp) - 1)) THEN Len(inp)
    ELSE IF At(p) = b_e THEN p + 1
    ELSE PairsEnd(ProductionEnd(StrEnd(p)))

(* The calls that parse a production. *)
Productions == {"parse_int", "parse_str", "parse_list", "parse_dict", "parse_type"}

(* C15: every call that parses a production and succeeds leaves the cursor *)
(* behind the last byte of that production; decode of an encoding leaves   *)
(* it at the length of the encoding; 0:, le and de take 2 bytes and        *)
(* llleelleee takes 10.                                                    *)
C15_CursorOnSuccess ==
    /\ \A n \in Calls :
          (log[n].fn \in Productions /\ log[n].tag = "Ok")
          => log[n].end = (IF log[n].fn = "parse_str" THEN StrEnd(log[n].start)
                           ELSE ProductionEnd(log[n].start))
    /\ (Called /\ res.tag = "Ok") => cursor = ProductionEnd(0)
    /\ (op = "encode_decode" /\ res.tag = "Ok") => cursor = Len(out)
    /\ (Called /\ inp \in {<<b_0, b_colon>>, <<b_l, b_e>>, <<b_d, b_e>>})
       => res.tag = "Ok" /\ cursor = 2
    /\ (Called /\ inp = <<b_l, b_l, b_l, b_e, b_e, b_l, b_l, b_e, b_e, b_e>>)
       => res.tag = "Ok" /\ cursor = 10

C15_Witness ==
    /\ Called
    /\ res.tag = "Ok"
    /\ cursor < Len(inp)
    /\ \E n, m \in Calls :
          /\ log[n].fn = "parse_dict" /\ log[n].tag = "Ok" /\ log[n].start > 0
          /\ log[m].fn = "parse_int" /\ log[m].tag = "Ok"
          /\ log[m].start > log[n].start
          /\ log[m].end < log[n].end

(* The production parse_type selects on the byte c. *)
Selected(c) ==
    IF c = b_i THEN "parse_int"
    ELSE IF c = b_l THEN "parse_list"
    ELSE IF c = b_d THEN "parse_dict"
    ELSE "parse_str"

(* Every call of parse_type that returned had called, just before, the     *)
(* production selected by the byte at its start, from that same position;  *)
(* with no byte there it failed with EndOfFile on the spot.                *)
Dispatch ==
    \A n \in Calls :
        log[n].fn = "parse_type"
        => IF At(log[n].start) = None
           THEN /\ log[n].tag = "Err"
                /\ log[n].err = EndOfFile
                /\ log[n].end = log[n].start
           ELSE /\ n > 1
                /\ log[n - 1].fn = Selected(At(log[n].start))
                /\ log[n - 1].start = log[n].start
                /\ log[n - 1].end = log[n].end
                /\ log[n - 1].tag = log[n].tag

(* The buffer starts with a byte that is none of 'i', 'l', 'd' or a digit. *)
OtherFirstByte ==
    /\ Called
    /\ Len(inp) > 0
    /\ At(0) \notin {b_i, b_l, b_d}
    /\ ~is_ascii_digit(At(0))

LengthErrors == {StringWithoutLength, NegativeStringLen, MissingIdentifier(b_colon)}

(* C16 as the specification has it: parse_type dispatches on one byte that *)
(* it leaves in place, and decode of a buffer that starts with a byte      *)
(* other than 'i', 'l', 'd' and the digits fails with StringWithoutLength, *)
(* NegativeStringLen or MissingIdentifier(':').                            *)
C16_Dispatch ==
    /\ Dispatch
    /\ OtherFirstByte => res.tag = "Err" /\ res.err \in LengthErrors

(* C16: the same, for the buffers whose length, when they start with '-'   *)
(* and digits, is of a magnitude of MaxInt at most.                        *)
C16_DispatchI64 ==
    /\ Dispatch
    /\ (OtherFirstByte
        /\ (At(0) = b_minus => Magnitude(1, DigitRun(1)) <= MaxInt))
       => res.tag = "Err" /\ res.err \in LengthErrors

C16_Witness ==
    /\ OtherFirstByte
    /\ At(0) = b_e
    /\ Len(inp) > 1
    /\ res.err = StringWithoutLength
    /\ cursor = 0

(* C17: a rejected buffer put as the last element of a list makes decode   *)
(* fail with the error of that buffer, where that buffer failed; every     *)
(* call of parse_list that fails either ends right after the failure of an *)
(* element, with the error and the cursor of that element, or finds no 'e' *)
(* because no byte is left, and fails with EndOfFile at the end of the     *)
(* buffer; one that succeeds ends behind an 'e'.  l3:abc fails with        *)
(* EndOfFile at cursor 6.                                                  *)
C17_ListAborts ==
    /\ op = "decode_in_list"
       => /\ res.tag = "Err"
          /\ res.err = base.res.err
          /\ cursor = base.cursor + (Len(inp) - Len(base.inp))
    /\ \A n \in Calls :
          (log[n].fn = "parse_list" /\ n > 1)
          => IF log[n].tag = "Ok"
             THEN /\ log[n - 1].fn = "expect_char"
                  /\ log[n - 1].tag = "Ok"
                  /\ At(log[n].end - 1) = b_e
             ELSE \/ /\ log[n - 1].fn = "parse_type"
                     /\ log[n - 1].tag = "Err"
                     /\ log[n].err = log[n - 1].err
                     /\ log[n].end = log[n - 1].end
                  \/ /\ log[n - 1].fn = "expect_char"
                     /\ log[n - 1].tag = "Err"
                     /\ log[n].err = EndOfFile
                     /\ log[n].end = Len(inp)
                     /\ log[n - 1].start = Len(inp)
    /\ (Called /\ inp = <<b_l, b_0 + 3, b_colon, b_a, 98, 99>>)
       => res.tag = "Err" /\ res.err = EndOfFile /\ cursor = 6

C17_Witness ==
    /\ op = "decode_in_list"
    /\ res.err = NegativeZero
    /\ Len(inp) - Len(base.inp) > 1
    /\ cursor < Len(inp)

(* 1 when the integer of the buffer has a '-', else 0. *)
Sign == IF At(1) = b_minus THEN 1 ELSE 0

(* The buffer is 'i', '-' or not, digits that write more than MaxInt, 'e'. *)
OverflowingInt ==
    /\ Called
    /\ At(0) = b_i
    /\ DigitRun(1 + Sign) > 0
    /\ Magnitude(1 + Sign, DigitRun(1 + Sign)) > MaxInt
    /\ At(1 + Sign + DigitRun(1 + Sign)) = b_e
    /\ Len(inp) = 2 + Sign + DigitRun(1 + Sign)

(* C18: decode of an integer whose digits write more than MaxInt returns   *)
(* the integer they write modulo 2^IntBits, with its sign, and the cursor  *)
(* behind the 'e'; no call of decode aborts.                               *)
C18_Wraparound ==
    /\ OverflowingInt
       => /\ res.tag = "Ok"
          /\ res.val = Integer(wrapping((IF Sign = 1 THEN -1 ELSE 1)
                                        * Magnitude(1 + Sign, DigitRun(1 + Sign))))
          /\ cursor = Len(inp)
    /\ Called => res.tag # "Panic"

(* C19: every call of parse_str whose read_num failed returns              *)
(* StringWithoutLength with the cursor where read_num left it; read_num    *)
(* fails so, with NotANumber, NegativeZero or EndOfFile, wherever parse_str *)
(* is called on a byte that is no digit, or on a '-' that no digit other   *)
(* than '0' follows.                                                       *)
C19_StringWithoutLength ==
    \A n \in Calls :
        log[n].fn = "parse_str"
        => /\ n > 1
           /\ (log[n - 1].fn = "read_num" /\ log[n - 1].tag = "Err")
              => /\ log[n].tag = "Err"
                 /\ log[n].err = StringWithoutLength
                 /\ log[n].end = log[n - 1].end
                 /\ log[n - 1].start = log[n].start
           /\ (At(log[n].start) # b_minus /\ ~is_ascii_digit(At(log[n].start)))
              => /\ log[n].err = StringWithoutLength
                 /\ log[n - 1].err = NotANumber
                 /\ log[n].end = log[n].start
           /\ (At(log[n].start) = b_minus /\ At(log[n].start + 1) = b_0)
              => /\ log[n].err = StringWithoutLength
                 /\ log[n - 1].err = NegativeZero
                 /\ log[n].end = log[n].start + 1
           /\ (At(log[n].start) = b_minus /\ At(log[n].start + 1) = None)
              => /\ log[n].err = StringWithoutLength
                 /\ log[n - 1].err = EndOfFile
                 /\ log[n].end = Len(inp)
           /\ (/\ At(log[n].start) = b_minus
               /\ At(log[n].start + 1) # None
               /\ ~is_ascii_digit(At(log[n].start + 1)))
              => /\ log[n].err = StringWithoutLength
                 /\ log[n - 1].err = NotANumber
                 /\ log[n].end = log[n].start + 1

C19_Witness ==
    /\ Called
    /\ \E n \in Calls :
          /\ log[n].fn = "parse_str"
          /\ log[n].start > 0
          /\ n > 1
          /\ log[n - 1].err = NegativeZero
          /\ log[n].err = StringWithoutLength
          /\ res.err.kind = "KeyWithoutValue"

(* C20: every call starts and ends with the cursor in the buffer, ends     *)
(* with it no lower than it started, and no lower than any call that       *)
(* returned before; a call of expect_char that fails ends where it         *)
(* started; decode leaves the cursor in the buffer, where the last call    *)
(* left it.                                                                *)
C20_CursorInvariant ==
    /\ cursor \in 0..Len(inp)
    /\ \A n \in Calls :
          /\ log[n].start \in 0..Len(inp)
          /\ log[n].end \in 0..Len(inp)
          /\ log[n].start <= log[n].end
          /\ n > 1 => log[n - 1].end <= log[n].end
          /\ (log[n].fn = "expect_char" /\ log[n].tag = "Err")
             => log[n].end = log[n].start
          /\ (log[n].fn = "expect_char" /\ log[n].tag = "Ok")
             => log[n].end = log[n].start + 1
    /\ (Called /\ res.tag # "Panic" /\ Len(log) > 0) => cursor = log[Len(log)].end

C20_Witness ==
    /\ Called
    /\ res.tag = "Err"
    /\ cursor = Len(inp)
    /\ \E n, m \in Calls :
          /\ n < m
          /\ log[n].fn = "expect_char" /\ log[n].tag = "Err"
          /\ log[n].start > 2
          /\ log[m].fn = "parse_dict"

(* The call of parse_str at entry n was made by parse_dict, for a key: no  *)
(* call of parse_type from the same position returned right after it.      *)
KeyStr(n) ==
    /\ log[n].fn = "parse_str"
    /\ IF n < Len(log)
       THEN ~(log[n + 1].fn = "parse_type" /\ log[n + 1].start = log[n].start)
       ELSE TRUE

(* The call of parse_type at entry m was made by parse_dict, for the value *)
(* of the key that ends where it starts.                                   *)
PairValue(m) ==
    /\ log[m].fn = "parse_type"
    /\ \E n \in 1..(m - 1) :
          KeyStr(n) /\ log[n].tag = "Ok" /\ log[n].end = log[m].start

(* The iterations of the element loop of parse_list, each by the call of   *)
(* parse_type in its body, and of the pair loop of parse_dict, each by the *)
(* call of parse_str that starts it.                                       *)
ListIterations ==
    {m \in Calls : log[m].fn = "parse_type" /\ log[m].start > 0 /\ ~PairValue(m)}

DictIterations == {n \in Calls : KeyStr(n)}

(* Every iteration that returned failed or left the cursor further on. *)
Progress ==
    /\ \A m \in ListIterations : log[m].tag = "Err" \/ log[m].end > log[m].start
    /\ \A n \in DictIterations :
          \/ log[n].tag = "Err"
          \/ \A m \in Calls :
                (PairValue(m) /\ log[m].start = log[n].end)
                => (log[m].tag = "Err" \/ log[m].end > log[n].start)

(* The calls of parse_type that were running when the call at entry n was  *)
(* made: they started before it and returned after it.                     *)
Enclosing(n) ==
    {m \in Calls : m > n /\ log[m].fn = "parse_type" /\ log[m].start < log[n].start}

(* The deepest the calls of parse_type that returned were nested. *)
RecursionDepth ==
    IF \E n \in Calls : log[n].fn = "parse_type"
    THEN CHOOSE k \in 0..Len(log) :
            /\ \E n \in Calls :
                  log[n].fn = "parse_type" /\ Cardinality(Enclosing(n)) = k
            /\ \A n \in Calls :
                  log[n].fn = "parse_type" => Cardinality(Enclosing(n)) <= k
    ELSE 0

RECURSIVE Nesting(_, _, _)
(* The deepest the lists and dictionaries of the buffer are nested, read   *)
(* from position p by the grammar with open of them not yet ended: 'l' and *)
(* 'd' open one, 'e' ends one, an integer and a byte string are skipped.   *)
Nesting(p, open, deepest) ==
    IF ~(p \in 0..(Len(inp) - 1)) THEN deepest
    ELSE IF At(p) \in {b_l, b_d}
    THEN Nesting(p + 1, open + 1, IF open + 1 > deepest THEN open + 1 ELSE deepest)
    ELSE IF open = 0 THEN deepest
    ELSE IF At(p) = b_e
    THEN (IF open = 1 THEN deepest ELSE Nesting(p + 1, open - 1, deepest))
    ELSE IF At(p) = b_i THEN Nesting(IntEnd(p), open, deepest)
    ELSE IF StrEnd(p) > p THEN Nesting(StrEnd(p), open, deepest)
    ELSE deepest

NestingDepth == Nesting(0, 0, 0)

(* decode made no more iterations than the buffer has bytes, each failed   *)
(* or moved the cursor on, and its calls were nested no deeper than the    *)
(* lists and dictionaries of the buffer.                                   *)
LoopsBounded ==
    /\ Progress
    /\ Cardinality(ListIterations \cup DictIterations) <= Len(inp)
    /\ RecursionDepth <= NestingDepth

(* C21: every call of decode ends in a value or in an error, after no more *)
(* iterations of the loops of parse_list and parse_dict than the buffer    *)
(* has bytes, each of which failed or advanced the cursor by a byte or     *)
(* more, and with its calls nested no deeper than the buffer nests lists   *)
(* and dictionaries.                                                       *)
C21_Terminates == Called => (res.tag \in {"Ok", "Err"} /\ LoopsBounded)

====
